---- MODULE Spec2Model ----
(***************************************************************************)
(* Model of the two computational screens of the school mobile client:     *)
(*   - the teacher coaching board  (src/app/(teacher)/coach.tsx, and its   *)
(*     earlier direct-to-store variant src/unnamed/part_012)               *)
(*   - the driver shuttle roster   (src/app/(driver)/home.tsx, and the     *)
(*     advisory screen src/unnamed/part_006)                               *)
(* React state is one variable per useState cell.  Every await is a        *)
(* suspension point: a request in flight is a record in a set, served by   *)
(* the backend in one step and resumed by the client in another.           *)
(***************************************************************************)
EXTENDS Integers, Sequences, FiniteSets, TLC

\* ------------------------------------------------------------------------
\* Bounds
\* ------------------------------------------------------------------------
MaxInflight == 2      \* commitment POSTs outstanding at once
MaxTaps == 2          \* status taps in one run of the whole board
MaxCycleTaps == 4     \* status taps in one run of the tap cycle alone
MaxLoads == 2         \* loadData calls in one run
MaxSends == 1         \* presses of the send button in one run
MaxSendTaps == 2      \* status taps in one run of the send dialogue alone
MaxRetrySends == 2    \* presses of the send button in such a run
MaxClassTaps == 1     \* status taps in one run with class switching

\* ------------------------------------------------------------------------
\* Coaching board: universe
\* ------------------------------------------------------------------------
NoEntry == "absent"   \* key not present in a Record<string, ...> / no row
None == "none"

Classes == {"c1", "c2"}
FirstClass == "c1"                      \* classData[0] under .order('name')
AllStudents == {"s1", "s2", "s3"}
StudentsOf(c) == IF c = "c1" THEN {"s1", "s2"} ELSE {"s3"}
Books == {"b1"}
AllCells == AllStudents \X Books
CellsOf(c) == StudentsOf(c) \X Books

CommitmentStatus == {"unchecked", "done", "partial", "not_done"}

NEXT_STATUS_Swapped(s) ==
  CASE s = "unchecked" -> "done"
    [] s = "done" -> "not_done"
    [] s = "partial" -> "unchecked"
    [] s = "not_done" -> "partial"

NEXT_STATUS(s) ==
  CASE s = "unchecked" -> "done"
    [] s = "done" -> "partial"
    [] s = "partial" -> "not_done"
    [] s = "not_done" -> "unchecked"

\* Alert.alert messages
AlertNoStudents == "No students to send reports to"
AlertNoRecords == "No coaching records to send"
AlertSaveFailed == "Failed to save. Please try again."
AlertConfirm == "Send to Parents"
AlertSuccess == "Coaching results sent to parents!"
AlertSendFailed == "Failed to send reports"

VARIABLES
  \* ---- CoachScreen state (coach.tsx:41-52)
  pcClasses,        \* "pending" while loadClasses runs, then "done"
  classes, selectedClassId, loading, refreshing, sending,
  students, books, commitments, sendStatuses,
  lastAlert,        \* the most recent Alert.alert title/message
  confirm,          \* the open "Send to Parents" dialog with its closure
  \* ---- requests in flight
  toggleReqs, loadReqs, sendReq,
  \* ---- backend store behind /api/teacher/*: the status stored per key,
  \* the rows of the commitments table, the send status per student
  db, commitmentRows, dbSend,
  \* ---- history of the run, read by the properties only
  run, sendOk,
  \* ---- budget of user actions
  nTaps, nLoads, nSends, tapLimit, sendLimit

boardVars == <<pcClasses, classes, selectedClassId, loading, refreshing,
               sending, students, books, commitments, sendStatuses,
               lastAlert, confirm, toggleReqs, loadReqs, sendReq,
               db, commitmentRows, dbSend, run, sendOk, nTaps, nLoads,
               nSends,
               tapLimit, sendLimit>>

\* ------------------------------------------------------------------------
\* Driver roster: universe
\* ------------------------------------------------------------------------
MaxCalls == 1         \* loadRouteBlocks calls in one run
MaxRequests == 1      \* rows of portal_requests
MaxSlotCalls == 2     \* loadRouteBlocks calls in one run of slot switching
MaxSelects == 3       \* presses of a slot pill in one run of the driver screen
MaxRefresh == 1       \* pulls to refresh in one run of the driver screen

Days == 1..3                            \* ISO dates, in calendar order
NoDate == 0                             \* payload field absent
Slots == {"slotA", "slotB"}
Buses == {"bus1"}
NoRoute == "no_route"
NoSlot == "no_slot"                     \* selectedSlotId === null
NoBus == "no_bus"                       \* busId === null
\* bus_routes: .eq('bus_id', ...).eq('slot_id', ...).maybeSingle()
RouteOf(bus, slot) ==
  IF bus = "bus1" /\ slot = "slotA" THEN "r1" ELSE NoRoute

\* route_blocks rows of route r1: id |-> block_order
BlockIds == {"k1", "k2", "k3"}
BlockOrder(k) == CASE k = "k1" -> 1 [] k = "k2" -> 2 [] k = "k3" -> 3
BlockRoute(k) == "r1"
BlockLabel(k) == k
\* route_block_students ( students ( ... ) ): the joined student of each
\* link, null when the student row is gone
MissingStudent == "null"
BlockStudents(k) ==
  CASE k = "k1" -> <<"s1", MissingStudent, "s2">>
    [] k = "k2" -> <<"s3">>
    [] k = "k3" -> <<>>

\* students rows: student_name, english_first_name, parents.phone
NativeName(s) == CASE s = "s1" -> "Kim" [] s = "s2" -> "" [] s = "s3" -> ""
EnglishName(s) == CASE s = "s1" -> "Amy" [] s = "s2" -> "Ben" [] s = "s3" -> ""
Phone(s) == CASE s = "s1" -> "010" [] s = "s2" -> "" [] s = "s3" -> "011"
NoNamePlaceholder == "NO_NAME"          \* the literal of home.tsx:165

Null == -1                              \* estimated_extra_time IS NULL
ExtraTimes == {Null, 0, 5, 10}
\* departure_time as text HH:MM, one digit per position
DepTimes == {<<0, 8, 0, 0>>, <<2, 3, 5, 0>>}

RequestTypes == {"absence", "early_pickup", "bus_change"}
RequestStatuses == {"pending", "approved"}
RequestStudents == {"s1", "s3"}
\* payload date ranges with dateEnd absent or not before dateStart
DateRanges ==
  {<<a, b>> \in Days \X (Days \cup {NoDate}) : b = NoDate \/ b >= a}
RequestRows ==
  [student_id : RequestStudents, type : RequestTypes,
   status : RequestStatuses, dateStart : Days, dateEnd : Days \cup {NoDate}]

VARIABLES
  \* ---- backend store read by the driver screens
  today,            \* new Date().toISOString().split('T')[0]
  blockExtra,       \* route_blocks.estimated_extra_time per block
  portalRequests,   \* portal_requests rows
  \* ---- DriverHome state (home.tsx:42-56)
  timeSlots, stopBlocks, loadingBlocks,
  \* ---- loadRouteBlocks calls in flight
  routeCalls,
  \* ---- history: the (slot, bus) whose call last wrote stopBlocks
  shown, nCalls, callLimit,
  \* ---- the earlier driver screen (part_006): which version is mounted,
  \* its two lists and the position of its loadData
  mounted, absences, changes, advisoryPc,
  \* ---- DriverHome state around the roster (home.tsx:42-56): the vehicle,
  \* the selected slot, the operation state with its end dialog, the loading
  \* flags, the loadInitialData calls in flight, and the presses so far
  busId, selectedSlotId, operation, endDialog, driverLoading,
  driverRefreshing, initPending, nSelects, nRefresh

driverVars == <<busId, selectedSlotId, operation, endDialog, driverLoading,
                driverRefreshing, initPending, nSelects, nRefresh>>

rosterVars == <<today, blockExtra, portalRequests, timeSlots, stopBlocks,
                loadingBlocks, routeCalls, shown, nCalls, callLimit,
                mounted, absences, changes, advisoryPc, driverVars>>

\* ------------------------------------------------------------------------
\* The other screens: the index redirect, the morning message and the
\* video recording
\* ------------------------------------------------------------------------

\* bounds of the three screens
MaxPreviews == 1
MaxBookToggles == 1
MaxMessageSends == 1
MaxRecordings == 2
MaxSubmits == 1

VARIABLES
  \* ---- what the backend holds for the signed-in user (index.tsx,
  \* getUserRole): the session, and the rows of profiles, teachers, drivers
  \* and students
  sessionUser, profileRow, teacherRow, driverRow, studentRows,
  \* ---- Index: the await checkAuthAndRedirect is at, the role resolved,
  \* the route replaced, and the loading flag
  authPc, role, route, indexLoading,
  \* ---- the morning-message screen (part_013:22-36): the selected class,
  \* the book list, the preview, its template, the flags, the send result
  messageClassId, messageBooks, previewText, templateId, previewing,
  messageSending, messageRefreshing, sendResult,
  \* ---- its requests in flight, the open send dialog with the values its
  \* onPress closes over, the POST bodies issued, and the presses so far
  bookLoads, previewReqs, sendDialog, messagePosts, issued,
  nPreviews, nBookToggles, nMessageSends,
  \* ---- the recording screen (record.tsx:32-37): state, videoUri, facing
  state, videoUri, facing,
  \* ---- its calls in flight: startRecording before and inside recordAsync,
  \* handleRetake inside deleteAsync, handleSubmit inside the upload, the
  \* failed-upload alert, and the presses so far
  permissionCalls, recordCalls, retakeCalls, uploadCalls, failAlerts,
  submitted, nRecordings, nSubmits

authVars == <<sessionUser, profileRow, teacherRow, driverRow, studentRows,
              authPc, role, route, indexLoading>>

messageVars == <<messageClassId, messageBooks, previewText, templateId,
                 previewing, messageSending, messageRefreshing, sendResult,
                 bookLoads,
                 previewReqs, sendDialog, messagePosts, issued, nPreviews,
                 nBookToggles, nMessageSends>>

recordVars == <<state, videoUri, facing, permissionCalls, recordCalls,
                retakeCalls, uploadCalls, failAlerts, submitted,
                nRecordings, nSubmits>>

screenVars == <<authVars, messageVars, recordVars>>

NoRow == "no row"
NullRole == "null"
NoRole == "none"
NoPath == "none"
NoClass == "no class"
\* previewText '' and templateId null; a generated text and its template
\* are written as the pair <<class_id, book_ids>> of the request they answer
NoPreview == <<>>
NoTemplate == <<>>
NoUri == "null"

\* Index as it is before its effect has run
AuthIdle ==
  /\ sessionUser = FALSE
  /\ profileRow = FALSE
  /\ teacherRow = NoRow
  /\ driverRow = FALSE
  /\ studentRows = 0
  /\ authPc = "idle"
  /\ role = NoRole
  /\ route = NoPath
  /\ indexLoading = TRUE

\* the morning-message screen, not mounted
MessageIdle ==
  /\ messageClassId = NoClass
  /\ messageBooks = <<>>
  /\ previewText = NoPreview
  /\ templateId = NoTemplate
  /\ previewing = FALSE
  /\ messageSending = FALSE
  /\ messageRefreshing = FALSE
  /\ sendResult = FALSE
  /\ bookLoads = {}
  /\ previewReqs = {}
  /\ sendDialog = {}
  /\ messagePosts = {}
  /\ issued = {}
  /\ nPreviews = 0
  /\ nBookToggles = 0
  /\ nMessageSends = 0

\* the recording screen, not mounted
RecordIdle ==
  /\ state = "READY"
  /\ videoUri = NoUri
  /\ facing = "front"
  /\ permissionCalls = 0
  /\ recordCalls = 0
  /\ retakeCalls = {}
  /\ uploadCalls = {}
  /\ failAlerts = {}
  /\ submitted = {}
  /\ nRecordings = 0
  /\ nSubmits = 0

ScreensIdle == AuthIdle /\ MessageIdle /\ RecordIdle

vars == <<boardVars, rosterVars, screenVars>>

\* commitments[key] || 'unchecked'
Visible(map, k) == IF map[k] = NoEntry THEN "unchecked" ELSE map[k]

\* Object.values(commitments).some((s) => s !== 'unchecked')
hasChecked_AnyKey(map) == \E k \in AllCells : map[k] # NoEntry
hasChecked(map) == \E k \in AllCells : map[k] \notin {NoEntry, "unchecked"}

\* students.length > 0 && students.every((s) => sendStatuses[s.id] === 'sent')
isAllSent(studs, statuses) ==
  studs # {} /\ \A s \in studs : statuses[s] = "sent"

\* c.status || 'unchecked'
NullStatus == "null"
StatusOrUnchecked_Raw(v) == v
StatusOrUnchecked(v) == IF v = NullStatus THEN "unchecked" ELSE v

\* setCommitments((prev) => ({ ...prev, [key]: status }))
SetCell_NoSpread(map, key, status) ==
  [k \in AllCells |-> IF k = key THEN status ELSE NoEntry]
SetCell(map, key, status) == [map EXCEPT ![key] = status]

\* the value the catch block of handleStatusToggle writes back
RevertTo_Next(r) == r.next
RevertTo(r) == r.cur

\* the send statuses after the 'Send' onPress resumed: a response that is
\* not OK throws before setSendStatuses is reached
StatusesAfterSend_Always(statuses, q) ==
  [s \in AllStudents |-> IF s \in q.students THEN "sent" ELSE NoEntry]
StatusesAfterSend(statuses, q) ==
  IF q.stage = "ok"
  THEN [s \in AllStudents |-> IF s \in q.students THEN "sent" ELSE NoEntry]
  ELSE statuses

\* send button: disabled={sending || isAllSent}
SendDisabled_AllSentOnly(flag, allSent) == allSent
SendDisabled(flag, allSent) == flag \/ allSent

\* the student cards and the send button are on screen
GridShown == ~(loading /\ students = {}) /\ students # {} /\ books # {}

FreeId(reqs, max) == CHOOSE i \in 1..max :
  /\ \A r \in reqs : r.id # i
  /\ \A j \in 1..(i - 1) : \E r \in reqs : r.id = j

InFlightOn(reqs, k) == \E r \in reqs : r.key = k

\* restart of the serial-tap count of cell k after its value was replaced
Restart(map, reqs, k) ==
  IF Visible(map, k) = "unchecked" /\ ~InFlightOn(reqs, k) THEN 0 ELSE -1

\* the screen after construction, before any effect has run
InitScreen ==
  /\ pcClasses = "pending"
  /\ classes = {}
  /\ selectedClassId = ""
  /\ loading = TRUE
  /\ refreshing = FALSE
  /\ sending = FALSE
  /\ students = {}
  /\ books = {}
  /\ commitments = [k \in AllCells |-> NoEntry]
  /\ sendStatuses = [s \in AllStudents |-> NoEntry]
  /\ lastAlert = None
  /\ confirm = {}
  /\ toggleReqs = {}
  /\ loadReqs = {}
  /\ sendReq = {}
  /\ dbSend = [s \in AllStudents |-> NoEntry]
  /\ run = [k \in AllCells |-> 0]
  /\ sendOk = {}
  /\ nTaps = 0
  /\ nLoads = 0
  /\ nSends = 0

\* the screen over a store without commitment rows for the date
InitBoard ==
  /\ InitScreen
  /\ db = [k \in AllCells |-> NoEntry]
  /\ commitmentRows = {}

\* loadData up to its first await: setLoading(true); apiFetch(GET ...class_id)
StartLoad(classId) ==
  /\ nLoads < MaxLoads
  /\ nLoads' = nLoads + 1
  /\ loading' = TRUE
  /\ loadReqs' = loadReqs \cup
       {[id |-> FreeId(loadReqs, MaxLoads), class_id |-> classId,
         stage |-> "sent", snapCommitments |-> [k \in AllCells |-> NoEntry],
         snapSend |-> [s \in AllStudents |-> NoEntry]]}

\* loadClasses resolves; setSelectedClassId(classData[0].id) fires the
\* [selectedClassId, date] effect, which calls loadData
LoadClasses ==
  /\ pcClasses = "pending"
  /\ pcClasses' = "done"
  /\ \E found \in BOOLEAN :
       IF found
       THEN /\ classes' = Classes
            /\ selectedClassId' = IF selectedClassId = "" THEN FirstClass
                                  ELSE selectedClassId
            /\ StartLoad(selectedClassId')
       ELSE UNCHANGED <<classes, selectedClassId, loading, loadReqs, nLoads>>
  /\ UNCHANGED <<refreshing, sending, students, books, commitments,
                 sendStatuses, lastAlert, confirm, toggleReqs, sendReq,
                 db, dbSend, run, sendOk, nTaps, nSends>>
  /\ UNCHANGED <<commitmentRows, tapLimit, sendLimit, rosterVars, screenVars>>

\* class chip onPress={() => setSelectedClassId(cls.id)} and the effect
SelectClass(c) ==
  /\ confirm = {}
  /\ c \in classes
  /\ c # selectedClassId
  /\ selectedClassId' = c
  /\ StartLoad(c)
  /\ UNCHANGED <<pcClasses, classes, refreshing, sending, students, books,
                 commitments, sendStatuses, lastAlert, confirm, toggleReqs,
                 sendReq, db, dbSend, run, sendOk, nTaps, nSends>>
  /\ UNCHANGED <<commitmentRows, tapLimit, sendLimit, rosterVars, screenVars>>

onRefresh ==
  /\ confirm = {}
  /\ ~(loading /\ students = {})
  /\ refreshing' = TRUE
  /\ StartLoad(selectedClassId)
  /\ UNCHANGED <<pcClasses, classes, selectedClassId, sending, students,
                 books, commitments, sendStatuses, lastAlert, confirm,
                 toggleReqs, sendReq, db, dbSend, run, sendOk, nTaps, nSends>>
  /\ UNCHANGED <<commitmentRows, tapLimit, sendLimit, rosterVars, screenVars>>

\* GET /api/teacher/commitments served: the rows of the class as stored now
ServeLoad(r) ==
  /\ r \in loadReqs
  /\ r.stage = "sent"
  /\ loadReqs' = (loadReqs \ {r}) \cup
       {[r EXCEPT !.stage = "ok",
           !.snapCommitments =
              [k \in AllCells |->
                 IF k \in CellsOf(r.class_id) THEN db[k] ELSE NoEntry],
           !.snapSend =
              [s \in AllStudents |->
                 IF s \in StudentsOf(r.class_id) THEN dbSend[s]
                 ELSE NoEntry]]}
  /\ UNCHANGED <<pcClasses, classes, selectedClassId, loading, refreshing,
                 sending, students, books, commitments, sendStatuses,
                 lastAlert, confirm, toggleReqs, sendReq, db, dbSend, run,
                 sendOk, nTaps, nLoads, nSends>>
  /\ UNCHANGED <<commitmentRows, tapLimit, sendLimit, rosterVars, screenVars>>

\* loadData resumes after the await: with the served response, or (never
\* served) with a non-OK response or a thrown network error
loadData(r) ==
  /\ r \in loadReqs
  /\ loadReqs' = loadReqs \ {r}
  /\ IF r.stage = "ok"
     THEN /\ students' = StudentsOf(r.class_id)
          /\ books' = Books
          /\ commitments' =
               [k \in AllCells |->
                  IF r.snapCommitments[k] = NoEntry THEN NoEntry
                  ELSE StatusOrUnchecked(r.snapCommitments[k])]
          /\ sendStatuses' = r.snapSend
          /\ run' = [k \in AllCells |-> Restart(commitments', toggleReqs, k)]
     ELSE UNCHANGED <<students, books, commitments, sendStatuses, run>>
  /\ loading' = FALSE
  /\ refreshing' = FALSE
  /\ UNCHANGED <<pcClasses, classes, selectedClassId, sending, lastAlert,
                 confirm, toggleReqs, sendReq, db, dbSend, sendOk, nTaps, nLoads, nSends>>
  /\ UNCHANGED <<commitmentRows, tapLimit, sendLimit, rosterVars, screenVars>>

\* handleStatusToggle up to its await: optimistic update and POST
handleStatusToggle(s, b) ==
  /\ confirm = {}
  /\ GridShown
  /\ s \in students /\ b \in books
  /\ Cardinality(toggleReqs) < MaxInflight
  /\ nTaps < tapLimit
  /\ nTaps' = nTaps + 1
  /\ LET key == <<s, b>>
         currentStatus == Visible(commitments, key)
         nextStatus == NEXT_STATUS(currentStatus)
     IN /\ commitments' = SetCell(commitments, key, nextStatus)
        /\ toggleReqs' = toggleReqs \cup
             {[id |-> FreeId(toggleReqs, MaxInflight), key |-> key,
               cur |-> currentStatus, next |-> nextStatus, stage |-> "sent",
               pre |-> Visible(commitments, key)]}
        /\ run' = [run EXCEPT ![key] =
                     IF run[key] = -1 \/ InFlightOn(toggleReqs, key) THEN -1
                     ELSE IF run[key] = 4 THEN 1 ELSE run[key] + 1]
  /\ UNCHANGED <<pcClasses, classes, selectedClassId, loading, refreshing,
                 sending, students, books, sendStatuses, lastAlert, confirm,
                 loadReqs, sendReq, db, dbSend, sendOk, nLoads, nSends>>
  /\ UNCHANGED <<commitmentRows, tapLimit, sendLimit, rosterVars, screenVars>>

\* the rows of a key in the commitments table
RowsOf(rows, key) == {row \in rows : row.key = key}

\* .upsert({...}, { onConflict: 'student_id,book_id,date' }): the row of
\* the key gets the status; a key without row gets its first row
Upsert_Insert(rows, key, status) ==
  rows \cup {[key |-> key, status |-> status,
              seq |-> Cardinality(RowsOf(rows, key)) + 1]}
Upsert(rows, key, status) ==
  IF RowsOf(rows, key) # {}
  THEN {IF row.key = key THEN [row EXCEPT !.status = status] ELSE row :
          row \in rows}
  ELSE rows \cup {[key |-> key, status |-> status, seq |-> 1]}

\* the table that holds one row for every stored status
TableOf(stored) ==
  {[key |-> k, status |-> stored[k], seq |-> 1] :
     k \in {c \in AllCells : stored[c] # NoEntry}}

\* POST /api/teacher/commitments served: upsert by (student, book, date)
ServeToggle(r) ==
  /\ r \in toggleReqs
  /\ r.stage = "sent"
  /\ db' = [db EXCEPT ![r.key] = r.next]
  /\ commitmentRows' = Upsert(commitmentRows, r.key, r.next)
  /\ toggleReqs' = (toggleReqs \ {r}) \cup {[r EXCEPT !.stage = "ok"]}
  /\ UNCHANGED <<pcClasses, classes, selectedClassId, loading, refreshing,
                 sending, students, books, commitments, sendStatuses,
                 lastAlert, confirm, loadReqs, sendReq, dbSend, run, sendOk,
                 nTaps, nLoads, nSends>>
  /\ UNCHANGED <<tapLimit, sendLimit, rosterVars, screenVars>>

\* handleStatusToggle resumes after the await: res.ok when the request was
\* served, the catch block when it was refused or lost
ResolveToggle(r) ==
  /\ r \in toggleReqs
  /\ toggleReqs' = toggleReqs \ {r}
  /\ IF r.stage = "ok"
     THEN UNCHANGED <<commitments, lastAlert, run>>
     ELSE /\ commitments' = SetCell(commitments, r.key, RevertTo(r))
          /\ lastAlert' = AlertSaveFailed
          /\ run' = [run EXCEPT ![r.key] =
                       Restart(commitments', toggleReqs', r.key)]
  /\ UNCHANGED <<pcClasses, classes, selectedClassId, loading, refreshing,
                 sending, students, books, sendStatuses, confirm, loadReqs,
                 sendReq, db, dbSend, sendOk, nTaps, nLoads, nSends>>
  /\ UNCHANGED <<commitmentRows, tapLimit, sendLimit, rosterVars, screenVars>>

\* send button onPress (rendered when students and books exist, disabled
\* while sending || isAllSent): the two checks, then the confirm dialog
handleSendReports ==
  /\ confirm = {}
  /\ GridShown
  /\ ~SendDisabled(sending, isAllSent(students, sendStatuses))
  /\ nSends < sendLimit
  /\ nSends' = nSends + 1
  /\ IF selectedClassId = "" \/ students = {}
     THEN lastAlert' = AlertNoStudents /\ confirm' = confirm
     ELSE IF ~hasChecked(commitments)
          THEN lastAlert' = AlertNoRecords /\ confirm' = confirm
          ELSE /\ lastAlert' = AlertConfirm
               /\ confirm' = {[class_id |-> selectedClassId,
                               students |-> students]}
  /\ UNCHANGED <<pcClasses, classes, selectedClassId, loading, refreshing,
                 sending, students, books, commitments, sendStatuses,
                 toggleReqs, loadReqs, sendReq, db, dbSend, run, sendOk, nTaps, nLoads>>
  /\ UNCHANGED <<commitmentRows, tapLimit, sendLimit, rosterVars, screenVars>>

\* dialog button { text: 'Cancel' }
CancelSend ==
  /\ confirm # {}
  /\ confirm' = {}
  /\ UNCHANGED <<pcClasses, classes, selectedClassId, loading, refreshing,
                 sending, students, books, commitments, sendStatuses,
                 lastAlert, toggleReqs, loadReqs, sendReq, db, dbSend, run,
                 sendOk, nTaps, nLoads, nSends>>
  /\ UNCHANGED <<commitmentRows, tapLimit, sendLimit, rosterVars, screenVars>>

\* dialog button { text: 'Send' } up to its await: POST /api/teacher/dagym/send
ConfirmSend ==
  /\ confirm # {}
  /\ confirm' = {}
  /\ sending' = TRUE
  /\ sendReq' = sendReq \cup
       {[class_id |-> d.class_id, students |-> d.students,
         stage |-> "sent"] : d \in confirm}
  /\ UNCHANGED <<pcClasses, classes, selectedClassId, loading, refreshing,
                 students, books, commitments, sendStatuses, lastAlert,
                 toggleReqs, loadReqs, db, dbSend, run, sendOk, nTaps, nLoads, nSends>>
  /\ UNCHANGED <<commitmentRows, tapLimit, sendLimit, rosterVars, screenVars>>

\* the send endpoint marks every student of the class 'sent' for the date
ServeSend ==
  /\ \E q \in sendReq :
       /\ q.stage = "sent"
       /\ dbSend' = [s \in AllStudents |->
                       IF s \in StudentsOf(q.class_id) THEN "sent"
                       ELSE dbSend[s]]
       /\ sendReq' = (sendReq \ {q}) \cup {[q EXCEPT !.stage = "ok"]}
  /\ UNCHANGED <<pcClasses, classes, selectedClassId, loading, refreshing,
                 sending, students, books, commitments, sendStatuses,
                 lastAlert, confirm, toggleReqs, loadReqs, db, run, sendOk,
                 nTaps, nLoads, nSends>>
  /\ UNCHANGED <<commitmentRows, tapLimit, sendLimit, rosterVars, screenVars>>

\* the 'Send' onPress resumes after the await: res.ok when the request was
\* served, the catch block when it was refused or lost
ResolveSend ==
  /\ \E q \in sendReq :
       /\ sendReq' = sendReq \ {q}
       /\ sendStatuses' = StatusesAfterSend(sendStatuses, q)
       /\ IF q.stage = "ok"
          THEN /\ lastAlert' = AlertSuccess
               /\ sendOk' = sendOk \cup {q.class_id}
          ELSE /\ lastAlert' = AlertSendFailed
               /\ UNCHANGED sendOk
  /\ sending' = FALSE
  /\ UNCHANGED <<pcClasses, classes, selectedClassId, loading, refreshing,
                 students, books, commitments, confirm, toggleReqs, loadReqs,
                 db, dbSend, run, nTaps, nLoads, nSends>>
  /\ UNCHANGED <<commitmentRows, tapLimit, sendLimit, rosterVars, screenVars>>

NextBoard ==
  \/ LoadClasses
  \/ onRefresh
  \/ \E r \in loadReqs : ServeLoad(r)
  \/ \E r \in loadReqs : loadData(r)
  \/ \E s \in AllStudents, b \in Books : handleStatusToggle(s, b)
  \/ \E r \in toggleReqs : ServeToggle(r)
  \/ \E r \in toggleReqs : ResolveToggle(r)
  \/ handleSendReports
  \/ CancelSend
  \/ ConfirmSend
  \/ ServeSend
  \/ ResolveSend

\* the state of DriverHome around the roster, with no press made
DriverIdle ==
  /\ busId = NoBus
  /\ selectedSlotId = NoSlot
  /\ operation = "idle"
  /\ endDialog = FALSE
  /\ driverLoading = FALSE
  /\ driverRefreshing = FALSE
  /\ initPending = 0
  /\ nSelects = 0
  /\ nRefresh = 0

\* the driver screen, not mounted
RosterIdle ==
  /\ DriverIdle
  /\ today = 2
  /\ blockExtra = [k \in BlockIds |-> 0]
  /\ portalRequests = {}
  /\ timeSlots = [s \in Slots |-> <<0, 0, 0, 0>>]
  /\ stopBlocks = <<>>
  /\ loadingBlocks = FALSE
  /\ routeCalls = {}
  /\ shown = <<>>
  /\ nCalls = 0
  /\ callLimit = 0
  /\ mounted = "home"
  /\ absences = {}
  /\ changes = {}
  /\ advisoryPc = "idle"

InitBoardSpec ==
  InitBoard /\ tapLimit = MaxTaps /\ sendLimit = MaxSends /\ RosterIdle
  /\ ScreensIdle

SpecBoard == InitBoardSpec /\ [][NextBoard]_vars

\* the tap cycle alone: the board after its first load, taps and their
\* requests, without refresh and without sends
NextCycle ==
  \/ LoadClasses
  \/ \E r \in loadReqs : ServeLoad(r)
  \/ \E r \in loadReqs : loadData(r)
  \/ \E s \in AllStudents, b \in Books : handleStatusToggle(s, b)
  \/ \E r \in toggleReqs : ServeToggle(r)
  \/ \E r \in toggleReqs : ResolveToggle(r)

InitCycleSpec ==
  InitBoard /\ tapLimit = MaxCycleTaps /\ sendLimit = 0 /\ RosterIdle
  /\ ScreensIdle

SpecCycle == InitCycleSpec /\ [][NextCycle]_vars

\* the send dialogue alone: the board after its first load, taps, and the
\* send button with its dialog and request, without refresh
NextSend ==
  \/ LoadClasses
  \/ \E r \in loadReqs : ServeLoad(r)
  \/ \E r \in loadReqs : loadData(r)
  \/ \E s \in AllStudents, b \in Books : handleStatusToggle(s, b)
  \/ \E r \in toggleReqs : ServeToggle(r)
  \/ \E r \in toggleReqs : ResolveToggle(r)
  \/ handleSendReports
  \/ CancelSend
  \/ ConfirmSend
  \/ ServeSend
  \/ ResolveSend

InitSendSpec ==
  /\ InitBoard
  /\ tapLimit = MaxSendTaps
  /\ sendLimit = MaxRetrySends
  /\ RosterIdle
  /\ ScreensIdle

SpecSend == InitSendSpec /\ [][NextSend]_vars

\* the board with class switching: every handler of the screen
NextClasses ==
  \/ NextBoard
  \/ \E c \in Classes : SelectClass(c)

InitClassesSpec ==
  InitBoard /\ tapLimit = MaxClassTaps /\ sendLimit = MaxSends /\ RosterIdle
  /\ ScreensIdle

SpecClasses == InitClassesSpec /\ [][NextClasses]_vars

\* rows of daily_commitments as the GET may return them: no row, a row
\* whose status is null, or a row with one of the four statuses
StoredStatus == CommitmentStatus \cup {NoEntry, NullStatus}

\* the board mounted over a store that already holds rows for the date
InitGridSpec ==
  /\ InitScreen
  /\ db \in [AllCells -> StoredStatus]
  /\ commitmentRows = TableOf(db)
  /\ tapLimit = MaxTaps
  /\ sendLimit = 0
  /\ RosterIdle
  /\ ScreensIdle

SpecGrid == InitGridSpec /\ [][NextCycle]_vars

\* ------------------------------------------------------------------------
\* Driver roster: loadRouteBlocks (home.tsx) 
\* ------------------------------------------------------------------------

\* time.split(':').map(Number)
ParseTime(t) == <<t[1] * 10 + t[2], t[3] * 10 + t[4]>>
\* String(n).padStart(2, '0')
Pad2(n) == <<n \div 10, n % 10>>

addMinutes_NoWrap(time, minutes) ==
  LET parts == ParseTime(time)
      totalMinutes == parts[1] * 60 + parts[2] + minutes
      h == totalMinutes \div 60
      m == totalMinutes % 60
  IN Pad2(h) \o Pad2(m)

addMinutes(time, minutes) ==
  LET parts == ParseTime(time)
      totalMinutes == parts[1] * 60 + parts[2] + minutes
      h == (totalMinutes \div 60) % 24
      m == totalMinutes % 60
  IN Pad2(h) \o Pad2(m)

\* .order('block_order') over the rows of the route
RECURSIVE OrderBlocks(_)
OrderBlocks(ks) ==
  IF ks = {} THEN <<>>
  ELSE LET first == CHOOSE k \in ks :
                      \A o \in ks : BlockOrder(k) <= BlockOrder(o)
       IN <<first>> \o OrderBlocks(ks \ {first})

\* route_blocks query: the rows of the route with their nested students
BlocksQuery_SkipEmpty(routeId, extra) ==
  LET ordered == OrderBlocks({k \in BlockIds : BlockRoute(k) = routeId
                                               /\ BlockStudents(k) # <<>>})
  IN [i \in 1..Len(ordered) |->
        [id |-> ordered[i], label |-> BlockLabel(ordered[i]),
         estimated_extra_time |-> extra[ordered[i]],
         route_block_students |-> BlockStudents(ordered[i])]]
BlocksQuery(routeId, extra) ==
  LET ordered == OrderBlocks({k \in BlockIds : BlockRoute(k) = routeId})
  IN [i \in 1..Len(ordered) |->
        [id |-> ordered[i], label |-> BlockLabel(ordered[i]),
         estimated_extra_time |-> extra[ordered[i]],
         route_block_students |-> BlockStudents(ordered[i])]]

\* portal_requests query: .in('type', [...]).eq('status', 'pending')
AbsentQuery_AllTypes(rows) == {r \in rows : r.status = "pending"}
AbsentQuery(rows) ==
  {r \in rows : r.type \in {"absence", "early_pickup"} /\ r.status = "pending"}

\* dateEnd ? today >= dateStart && today <= dateEnd : today === dateStart
isToday_StartOnly(day, dateStart, dateEnd) == day = dateStart
isToday(day, dateStart, dateEnd) ==
  IF dateEnd # NoDate
  THEN dateStart # NoDate /\ day >= dateStart /\ day <= dateEnd
  ELSE day = dateStart

\* the absentIds set built by the forEach
absentIds_FromStart(rows, day) ==
  {r.student_id : r \in {q \in rows : day >= q.dateStart
                                       /\ q.student_id # MissingStudent}}
absentIds(rows, day) ==
  {r.student_id : r \in {q \in rows : isToday(day, q.dateStart, q.dateEnd)
                                       /\ q.student_id # MissingStudent}}

\* s.student_name || s.english_first_name || placeholder
DisplayName(s) ==
  IF NativeName(s) # "" THEN NativeName(s)
  ELSE IF EnglishName(s) # "" THEN EnglishName(s)
  ELSE NoNamePlaceholder

\* .map(rbs => rbs.students).filter(s => s && !absentIds.has(s.id)).map(...)
StudentInfos_DropBlock(links, absent) ==
  LET keep(s) == s # MissingStudent /\ s \notin absent
      kept == IF \E j \in 1..Len(links) : links[j] = MissingStudent
              THEN <<>> ELSE SelectSeq(links, keep)
  IN [i \in 1..Len(kept) |->
        [id |-> kept[i], name |-> DisplayName(kept[i]),
         phone |-> Phone(kept[i])]]
StudentInfos(links, absent) ==
  LET keep(s) == s # MissingStudent /\ s \notin absent
      kept == SelectSeq(links, keep)
  IN [i \in 1..Len(kept) |->
        [id |-> kept[i], name |-> DisplayName(kept[i]),
         phone |-> Phone(kept[i])]]

\* block.estimated_extra_time || 0
ExtraOrZero_Raw(v) == v
ExtraOrZero(v) == IF v = Null THEN 0 ELSE v

\* the value of `accumulated` after the first n blocks
RECURSIVE Accumulated(_, _)
Accumulated(blocks, n) ==
  IF n = 0 THEN 0
  ELSE Accumulated(blocks, n - 1) + ExtraOrZero(blocks[n].estimated_extra_time)

\* the (blocks || []).map(...) that builds the StopBlock list
BuildStops(blocks, absent, baseTime) ==
  [i \in 1..Len(blocks) |->
     [blockId |-> blocks[i].id,
      label |-> blocks[i].label,
      time |-> addMinutes(baseTime, Accumulated(blocks, i)),
      students |-> StudentInfos(blocks[i].route_block_students, absent)]]

\* slot?.departure_time || '00:00'
BaseTime(slots, slotId) ==
  IF slotId \in DOMAIN slots THEN slots[slotId] ELSE <<0, 0, 0, 0>>

\* the sets of at most n well-formed request rows
RECURSIVE RequestSets(_)
RequestSets(n) ==
  IF n = 0 THEN {{}}
  ELSE LET smaller == RequestSets(n - 1)
           rows == {r \in RequestRows :
                      <<r.dateStart, r.dateEnd>> \in DateRanges}
       IN smaller \cup {rs \cup {r} : rs \in smaller, r \in rows}

\* the screen with its time slots loaded, over a store whose rows are drawn
\* from the bounded sets: either the extra times vary, or the requests do
InitRoster ==
  /\ today \in {2, 3}
  /\ \/ /\ blockExtra \in [BlockIds -> ExtraTimes]
        /\ timeSlots \in {[s \in Slots |-> IF s = "slotA" THEN t
                                            ELSE <<1, 5, 0, 0>>] :
                            t \in DepTimes}
        /\ portalRequests = {}
     \/ /\ blockExtra = [k \in BlockIds |->
                           CASE k = "k1" -> 5 [] k = "k2" -> 10 [] k = "k3" -> 0]
        /\ timeSlots = [s \in Slots |-> <<0, 8, 0, 0>>]
        /\ portalRequests \in RequestSets(MaxRequests)
  /\ stopBlocks = <<>>
  /\ loadingBlocks = FALSE
  /\ routeCalls = {}
  /\ shown = <<>>
  /\ nCalls = 0
  /\ mounted \in {"home", "advisory"}
  /\ absences = {}
  /\ changes = {}
  /\ advisoryPc = "idle"

\* loadRouteBlocks up to its first await: the bus_routes query
StartRouteCall(slotId, driverBusId) ==
  /\ nCalls' = nCalls + 1
  /\ loadingBlocks' = TRUE
  /\ routeCalls' = routeCalls \cup
       {[id |-> nCalls + 1, slotId |-> slotId, busId |-> driverBusId,
         pc |-> "route", slots |-> timeSlots, blocks |-> <<>>, today |-> 0]}

\* a call of the function with the slot and vehicle as arguments
loadRouteBlocks(slotId, driverBusId) ==
  /\ mounted = "home"
  /\ nCalls < callLimit
  /\ StartRouteCall(slotId, driverBusId)
  /\ UNCHANGED <<today, blockExtra, portalRequests, timeSlots, stopBlocks,
                 shown>>
  /\ UNCHANGED <<callLimit, mounted, absences, changes, advisoryPc>>
  /\ UNCHANGED <<driverVars, screenVars>>
  /\ UNCHANGED boardVars

\* if (!route) { setStopBlocks([]); ... }: the list shown is replaced
StopsWithoutRoute_Keep(previous) == previous
StopsWithoutRoute(previous) == <<>>

\* resumes with the route: none found ends the call with an empty list,
\* otherwise the route_blocks query is issued
RouteAnswered(c) ==
  /\ c \in routeCalls
  /\ c.pc = "route"
  /\ IF RouteOf(c.busId, c.slotId) = NoRoute
     THEN /\ stopBlocks' = StopsWithoutRoute(stopBlocks)
          /\ loadingBlocks' = FALSE
          /\ shown' = <<c.slotId, c.busId>>
          /\ routeCalls' = routeCalls \ {c}
     ELSE /\ routeCalls' = (routeCalls \ {c}) \cup {[c EXCEPT !.pc = "blocks"]}
          /\ UNCHANGED <<stopBlocks, loadingBlocks, shown>>
  /\ UNCHANGED <<today, blockExtra, portalRequests, timeSlots, nCalls>>
  /\ UNCHANGED <<callLimit, mounted, absences, changes, advisoryPc>>
  /\ UNCHANGED <<driverVars, screenVars>>
  /\ UNCHANGED boardVars

\* resumes with the blocks; reads the date and issues the requests query
BlocksAnswered(c) ==
  /\ c \in routeCalls
  /\ c.pc = "blocks"
  /\ routeCalls' = (routeCalls \ {c}) \cup
       {[c EXCEPT !.pc = "requests",
                  !.blocks = BlocksQuery(RouteOf(c.busId, c.slotId), blockExtra),
                  !.today = today]}
  /\ UNCHANGED <<today, blockExtra, portalRequests, timeSlots, stopBlocks,
                 loadingBlocks, shown, nCalls>>
  /\ UNCHANGED <<callLimit, mounted, absences, changes, advisoryPc>>
  /\ UNCHANGED <<driverVars, screenVars>>
  /\ UNCHANGED boardVars

\* resumes with the pending absence / early-pickup rows and builds the list
RequestsAnswered(c) ==
  /\ c \in routeCalls
  /\ c.pc = "requests"
  /\ LET absent == absentIds(AbsentQuery(portalRequests), c.today)
         baseTime == BaseTime(c.slots, c.slotId)
     IN stopBlocks' = BuildStops(c.blocks, absent, baseTime)
  /\ shown' = <<c.slotId, c.busId>>
  /\ loadingBlocks' = FALSE
  /\ routeCalls' = routeCalls \ {c}
  /\ UNCHANGED <<today, blockExtra, portalRequests, timeSlots, nCalls>>
  /\ UNCHANGED <<callLimit, mounted, absences, changes, advisoryPc>>
  /\ UNCHANGED <<driverVars, screenVars>>
  /\ UNCHANGED boardVars

\* ------------------------------------------------------------------------
\* Driver advisory screen: loadData (part_006)
\* ------------------------------------------------------------------------

\* portal_requests query: .eq('type', 'bus_change').eq('status', 'pending')
ChangeQuery(rows) ==
  {r \in rows : r.type = "bus_change" /\ r.status = "pending"}

\* the absenceItems pushed by the first forEach
AbsenceItems(rows, day) ==
  {[row |-> r, type |-> r.type] :
     r \in {q \in rows : isToday(day, q.dateStart, q.dateEnd)}}

\* the changeItems pushed by the second forEach: today === dateStart
ChangeItems(rows, day) ==
  {[row |-> r] : r \in {q \in rows : day = q.dateStart}}

\* mount effect or pull-to-refresh: loadData up to its first await
driverLoadData ==
  /\ mounted = "advisory"
  /\ advisoryPc \in {"idle", "done"}
  /\ nCalls < callLimit
  /\ nCalls' = nCalls + 1
  /\ advisoryPc' = "absences"
  /\ UNCHANGED <<today, blockExtra, portalRequests, timeSlots, stopBlocks,
                 loadingBlocks, routeCalls, shown, callLimit, mounted,
                 absences, changes>>
  /\ UNCHANGED <<boardVars, driverVars, screenVars>>

\* resumes with the absence / early-pickup rows: setAbsences, second query
AdvisoryAbsencesAnswered ==
  /\ advisoryPc = "absences"
  /\ absences' = AbsenceItems(AbsentQuery(portalRequests), today)
  /\ advisoryPc' = "changes"
  /\ UNCHANGED <<today, blockExtra, portalRequests, timeSlots, stopBlocks,
                 loadingBlocks, routeCalls, shown, nCalls, callLimit, mounted,
                 changes>>
  /\ UNCHANGED <<boardVars, driverVars, screenVars>>

\* resumes with the bus_change rows: setChanges
AdvisoryChangesAnswered ==
  /\ advisoryPc = "changes"
  /\ changes' = ChangeItems(ChangeQuery(portalRequests), today)
  /\ advisoryPc' = "done"
  /\ UNCHANGED <<today, blockExtra, portalRequests, timeSlots, stopBlocks,
                 loadingBlocks, routeCalls, shown, nCalls, callLimit, mounted,
                 absences>>
  /\ UNCHANGED <<boardVars, driverVars, screenVars>>

NextRoster ==
  \/ \E slotId \in Slots, b \in Buses : loadRouteBlocks(slotId, b)
  \/ \E c \in routeCalls : RouteAnswered(c)
  \/ \E c \in routeCalls : BlocksAnswered(c)
  \/ \E c \in routeCalls : RequestsAnswered(c)
  \/ driverLoadData
  \/ AdvisoryAbsencesAnswered
  \/ AdvisoryChangesAnswered

InitRosterSpec ==
  /\ InitRoster
  /\ DriverIdle
  /\ callLimit = MaxCalls
  /\ InitBoard /\ tapLimit = 0 /\ sendLimit = 0
  /\ ScreensIdle

SpecRoster == InitRosterSpec /\ [][NextRoster]_vars

\* slot switching alone: the driver selects slots one after another (or
\* pulls to refresh) over a fixed route, with at most one request row
NextSlots ==
  \/ \E slotId \in Slots, b \in Buses : loadRouteBlocks(slotId, b)
  \/ \E c \in routeCalls : RouteAnswered(c)
  \/ \E c \in routeCalls : BlocksAnswered(c)
  \/ \E c \in routeCalls : RequestsAnswered(c)

InitSlotsSpec ==
  /\ today \in {2, 3}
  /\ blockExtra = [k \in BlockIds |->
                     CASE k = "k1" -> 5 [] k = "k2" -> 10 [] k = "k3" -> 0]
  /\ timeSlots = [s \in Slots |-> <<0, 8, 0, 0>>]
  /\ portalRequests \in
       {{}, {[student_id |-> "s3", type |-> "absence", status |-> "pending",
              dateStart |-> 2, dateEnd |-> NoDate]}}
  /\ stopBlocks = <<>>
  /\ loadingBlocks = FALSE
  /\ routeCalls = {}
  /\ shown = <<>>
  /\ nCalls = 0
  /\ callLimit = MaxSlotCalls
  /\ DriverIdle
  /\ mounted = "home"
  /\ absences = {}
  /\ changes = {}
  /\ advisoryPc = "idle"
  /\ InitBoard /\ tapLimit = 0 /\ sendLimit = 0
  /\ ScreensIdle

SpecSlots == InitSlotsSpec /\ [][NextSlots]_vars

\* ------------------------------------------------------------------------
\* Driver screen: slot selection, refresh and operation state (home.tsx)
\* ------------------------------------------------------------------------

\* transport_time_slots rows as loadInitialData reads them
StoredTimeSlots == [s \in Slots |-> <<0, 8, 0, 0>>]
NoTimeSlots == <<>>

\* what the store and the screen's fields outside DriverHome keep
DriverFrame ==
  /\ UNCHANGED <<today, blockExtra, portalRequests, callLimit, mounted,
                 absences, changes, advisoryPc>>
  /\ UNCHANGED <<boardVars, screenVars>>

\* loadInitialData resumes after its awaits: the slots are set (to [] when
\* the query gave none); without a signed-in user and on a thrown error
\* they are left alone; finally clears both flags
loadInitialData ==
  /\ initPending > 0
  /\ initPending' = initPending - 1
  /\ \E outcome \in {"slots", "empty", "none"} :
       timeSlots' = CASE outcome = "slots" -> StoredTimeSlots
                      [] outcome = "empty" -> NoTimeSlots
                      [] outcome = "none" -> timeSlots
  /\ driverLoading' = FALSE
  /\ driverRefreshing' = FALSE
  /\ UNCHANGED <<busId, selectedSlotId, operation, endDialog, nSelects,
                 nRefresh>>
  /\ UNCHANGED <<stopBlocks, loadingBlocks, routeCalls, shown, nCalls>>
  /\ DriverFrame

\* the effect on [selectedSlotId, busId], run after the handler that
\* changed selectedSlotId to slotId
SlotEffect(slotId) ==
  IF slotId # NoSlot /\ busId # NoBus
  THEN StartRouteCall(slotId, busId)
  ELSE UNCHANGED <<nCalls, loadingBlocks, routeCalls>>

\* slot pill onPress, with the effect it triggers
handleSlotSelect(slotId) ==
  /\ ~driverLoading /\ ~endDialog
  /\ slotId \in DOMAIN timeSlots
  /\ nSelects < MaxSelects
  /\ nSelects' = nSelects + 1
  /\ IF selectedSlotId = slotId
     THEN UNCHANGED <<selectedSlotId, operation, nCalls, loadingBlocks,
                      routeCalls>>
     ELSE /\ selectedSlotId' = slotId
          /\ operation' = "idle"
          /\ SlotEffect(slotId)
  /\ UNCHANGED <<busId, endDialog, driverLoading, driverRefreshing,
                 initPending, nRefresh>>
  /\ UNCHANGED <<timeSlots, stopBlocks, shown>>
  /\ DriverFrame

\* RefreshControl onRefresh, with the effect (selectedSlotId is null)
driverOnRefresh ==
  /\ ~driverLoading /\ ~endDialog
  /\ nRefresh < MaxRefresh
  /\ nRefresh' = nRefresh + 1
  /\ driverRefreshing' = TRUE
  /\ stopBlocks' = <<>>
  /\ shown' = <<>>
  /\ selectedSlotId' = NoSlot
  /\ operation' = "idle"
  /\ initPending' = initPending + 1
  /\ SlotEffect(NoSlot)
  /\ UNCHANGED <<busId, endDialog, driverLoading, nSelects>>
  /\ UNCHANGED timeSlots
  /\ DriverFrame

\* operation button onPress (rendered with a slot selected, disabled when
\* ended): idle starts the run, running opens the end dialog
handleOperationPress_NoDialog ==
  /\ ~driverLoading /\ ~endDialog
  /\ selectedSlotId # NoSlot
  /\ operation # "ended"
  /\ operation' = IF operation = "idle" THEN "running" ELSE "ended"
  /\ UNCHANGED <<busId, selectedSlotId, endDialog, driverLoading,
                 driverRefreshing, initPending, nSelects, nRefresh>>
  /\ UNCHANGED <<timeSlots, stopBlocks, loadingBlocks, routeCalls, shown,
                 nCalls>>
  /\ DriverFrame
handleOperationPress ==
  /\ ~driverLoading /\ ~endDialog
  /\ selectedSlotId # NoSlot
  /\ operation # "ended"
  /\ IF operation = "idle"
     THEN operation' = "running" /\ endDialog' = endDialog
     ELSE operation' = operation /\ endDialog' = TRUE
  /\ UNCHANGED <<busId, selectedSlotId, driverLoading, driverRefreshing,
                 initPending, nSelects, nRefresh>>
  /\ UNCHANGED <<timeSlots, stopBlocks, loadingBlocks, routeCalls, shown,
                 nCalls>>
  /\ DriverFrame

\* end dialog, destructive button: onPress: () => setOperation('ended')
ConfirmEnd ==
  /\ endDialog
  /\ endDialog' = FALSE
  /\ operation' = "ended"
  /\ UNCHANGED <<busId, selectedSlotId, driverLoading, driverRefreshing,
                 initPending, nSelects, nRefresh>>
  /\ UNCHANGED <<timeSlots, stopBlocks, loadingBlocks, routeCalls, shown,
                 nCalls>>
  /\ DriverFrame

\* end dialog, cancel button
CancelEnd ==
  /\ endDialog
  /\ endDialog' = FALSE
  /\ UNCHANGED <<busId, selectedSlotId, operation, driverLoading,
                 driverRefreshing, initPending, nSelects, nRefresh>>
  /\ UNCHANGED <<timeSlots, stopBlocks, loadingBlocks, routeCalls, shown,
                 nCalls>>
  /\ DriverFrame

\* the screen as mounted: the mount effect has called loadInitialData
DriverMounted ==
  /\ today = 2
  /\ blockExtra = [k \in BlockIds |->
                     CASE k = "k1" -> 5 [] k = "k2" -> 10 [] k = "k3" -> 0]
  /\ portalRequests = {}
  /\ timeSlots = NoTimeSlots
  /\ stopBlocks = <<>>
  /\ loadingBlocks = FALSE
  /\ routeCalls = {}
  /\ shown = <<>>
  /\ nCalls = 0
  /\ callLimit = 0
  /\ mounted = "home"
  /\ absences = {}
  /\ changes = {}
  /\ advisoryPc = "idle"
  /\ selectedSlotId = NoSlot
  /\ operation = "idle"
  /\ endDialog = FALSE
  /\ driverLoading = TRUE
  /\ driverRefreshing = FALSE
  /\ initPending = 1
  /\ nSelects = 0
  /\ nRefresh = 0
  /\ InitBoard /\ tapLimit = 0 /\ sendLimit = 0
  /\ ScreensIdle

NextDriver ==
  \/ loadInitialData
  \/ \E slotId \in Slots : handleSlotSelect(slotId)
  \/ driverOnRefresh
  \/ handleOperationPress
  \/ ConfirmEnd
  \/ CancelEnd

\* the screen as the source has it: useState<string | null>(null) for busId
InitDriverSpec == DriverMounted /\ busId = NoBus

SpecDriver == InitDriverSpec /\ [][NextDriver]_vars

\* the screen with the driver's vehicle known, so that the effect calls
\* loadRouteBlocks and its queries are answered
NextDriverBus ==
  \/ NextDriver
  \/ \E c \in routeCalls : RouteAnswered(c)
  \/ \E c \in routeCalls : BlocksAnswered(c)
  \/ \E c \in routeCalls : RequestsAnswered(c)

InitDriverBusSpec == DriverMounted /\ busId \in Buses

SpecDriverBus == InitDriverBusSpec /\ [][NextDriverBus]_vars

\* ------------------------------------------------------------------------
\* Coaching board: properties
\* ------------------------------------------------------------------------

\* the request that left the set of outstanding POSTs in this step
Gone(r) == r \in toggleReqs /\ \A q \in toggleReqs' : q.id # r.id

\* the fixed cycle of the specification
CycleOrder == <<"unchecked", "done", "partial", "not_done">>
CycleIndex(s) == CHOOSE i \in 1..4 : CycleOrder[i] = s
CycleSucc(s) == CycleOrder[(CycleIndex(s) % 4) + 1]

\* C1: when the persistence request of a tap fails, the cell shows again the
\* status it showed immediately before that tap, and the failure is reported
\* with the "Failed to save" alert.
C1_ExactRollback ==
  [][\A r \in toggleReqs :
       (Gone(r) /\ r.stage = "sent")
         => /\ Visible(commitments', r.key) = r.pre
            /\ lastAlert' = AlertSaveFailed]_vars

\* a failed save was rolled back to a status other than the default
C1_Witness ==
  /\ lastAlert = AlertSaveFailed
  /\ toggleReqs = {}
  /\ \E k \in AllCells : commitments[k] \in {"done", "partial", "not_done"}

\* C2: advances on one cell are serialized, i.e. a cell never has two
\* persistence requests outstanding at once (a tap on a cell with a request
\* in flight neither mutates the grid nor issues a request).
C2_SerializedPerCell ==
  \A r1 \in toggleReqs : \A r2 \in toggleReqs :
    r1.key = r2.key => r1.id = r2.id

\* C3: once every persistence request has resolved (and no load is pending),
\* every cell on screen shows the status the backend stores for its key.
C3_EventuallyConsistent ==
  (toggleReqs = {} /\ loadReqs = {} /\ students # {})
    => \A k \in students \X books :
         Visible(commitments, k) = Visible(db, k)

\* C4: after a send has succeeded for a class, every student of the class
\* has send status 'sent', and no further send for that class is accepted:
\* no confirm dialog is opened and no second POST is issued.
C4_SendOnce ==
  \A c \in sendOk :
    /\ \A s \in StudentsOf(c) : sendStatuses[s] = "sent"
    /\ \A d \in confirm : d.class_id # c
    /\ \A q \in sendReq : q.class_id # c

\* C5: the send gate is one-way: once every student on screen is 'sent', no
\* step makes the board not-all-sent again.
C5_OneWayGate ==
  [][isAllSent(students, sendStatuses)
       => isAllSent(students', sendStatuses')]_vars

C13_FailedSendRetryable ==
  [][\A q \in sendReq :
       (q.stage = "sent" /\ sendReq' = {})
         => /\ sendStatuses' = sendStatuses
            /\ \A s \in AllStudents : sendStatuses'[s] # "sent"
            /\ dbSend' = dbSend
            /\ lastAlert' = AlertSendFailed
            /\ sending' = FALSE
            /\ ~isAllSent(students', sendStatuses')
            /\ sendOk' = sendOk]_vars

\* a send has just failed and the button would take the next press: the
\* grid is on screen with a checked cell, nothing is marked sent, no dialog
\* is open and a press is left in the run
C13_Witness ==
  /\ lastAlert = AlertSendFailed
  /\ ~sending /\ sendReq = {} /\ confirm = {}
  /\ GridShown /\ hasChecked(commitments)
  /\ ~isAllSent(students, sendStatuses)
  /\ \A s \in AllStudents : sendStatuses[s] # "sent" /\ dbSend[s] # "sent"
  /\ nSends < sendLimit

\* C14: the optimistic update, the success and the rollback of a tap on one
\* cell leave the visible status of every other cell unchanged, and the
\* write of its request changes the stored status of no other key, also
\* with requests for several cells in flight that resolve in any order.
C14_CellsIndependent ==
  [][/\ \A r \in toggleReqs' :
          (nTaps' = nTaps + 1 /\ r \notin toggleReqs)
            => \A k \in AllCells \ {r.key} :
                 Visible(commitments', k) = Visible(commitments, k)
     /\ \A r \in toggleReqs :
          Gone(r)
            => \A k \in AllCells \ {r.key} :
                 Visible(commitments', k) = Visible(commitments, k)
     /\ \A r \in toggleReqs :
          (r.stage = "sent" /\ [r EXCEPT !.stage = "ok"] \in toggleReqs')
            => /\ commitments' = commitments
               /\ \A k \in AllCells \ {r.key} : db'[k] = db[k]]_vars

\* requests for two cells were in flight together; the one issued first
\* failed and was rolled back while the other cell kept its new status
C14_Witness ==
  /\ lastAlert = AlertSaveFailed
  /\ \E r \in toggleReqs :
       /\ r.id = 2
       /\ \A q \in toggleReqs : q.id = 2
       /\ commitments[r.key] = r.next
       /\ r.next = "partial"
       /\ \E k \in AllCells \ {r.key} : commitments[k] = "unchecked"

C20_OptimisticNoWait ==
  /\ [][\A r \in toggleReqs' :
          (nTaps' = nTaps + 1 /\ r \notin toggleReqs)
            => /\ r.stage = "sent"
               /\ Visible(commitments', r.key)
                    = CycleSucc(Visible(commitments, r.key))
               /\ db' = db]_vars
  /\ [](\A r \in toggleReqs :
          (GridShown /\ nTaps < tapLimit
             /\ Cardinality(toggleReqs) < MaxInflight)
            => \A s \in students, b \in books :
                 <<s, b>> # r.key => ENABLED handleStatusToggle(s, b))

\* two cells show their next status while both requests are unserved and
\* the store holds nothing
C20_Witness ==
  /\ \E r1 \in toggleReqs : \E r2 \in toggleReqs :
       /\ r1.key # r2.key
       /\ r1.stage = "sent" /\ r2.stage = "sent"
       /\ commitments[r1.key] = "done" /\ commitments[r2.key] = "done"
  /\ \A k \in AllCells : db[k] = NoEntry

\* C25: a response that arrives for a class other than the selected one
\* does not overwrite what is on screen: neither a late loadData response
\* nor the success of a send started under the earlier class changes the
\* students, books, commitments or send statuses.
C25_LateResponseIgnored ==
  [][/\ \A r \in loadReqs :
          (r.stage = "ok" /\ r \notin loadReqs'
             /\ r.class_id # selectedClassId)
            => /\ students' = students
               /\ books' = books
               /\ commitments' = commitments
               /\ sendStatuses' = sendStatuses
     /\ \A q \in sendReq :
          (q.stage = "ok" /\ sendReq' = {} /\ q.class_id # selectedClassId)
            => sendStatuses' = sendStatuses]_vars

\* C26: at most one request to the send endpoint is in flight: a request
\* is in flight exactly while the sending flag is set, no dialog is open
\* and no press is taken meanwhile, and the flag is cleared when the request
\* resolves, on success and on failure.
C26_OneSendInFlight ==
  /\ [](/\ Cardinality(sendReq) <= 1
         /\ sending <=> sendReq # {}
         /\ confirm # {} => ~sending)
  /\ [][/\ (sendReq # {} /\ sendReq' = {}) => sending' = FALSE
        /\ sending => (nSends' = nSends /\ confirm' = {})]_vars

\* the second send of a run is in flight, after the first one had failed
C26_Witness ==
  /\ sending
  /\ nSends = 2
  /\ sendOk = {}
  /\ \E q \in sendReq : q.stage = "sent"
  /\ \A s \in AllStudents : dbSend[s] = NoEntry

\* C12: in every reachable state every cell of the grid reads one of
\* unchecked, done, partial, not_done: after loadData over any stored rows
\* (missing rows and rows without status read 'unchecked'), after taps and
\* after rollbacks; the statuses captured by requests in flight are of the
\* same four.
C12_GridInEnum ==
  /\ \A k \in AllCells :
       /\ Visible(commitments, k) \in CommitmentStatus
       /\ commitments[k] \in CommitmentStatus \cup {NoEntry}
  /\ \A r \in toggleReqs :
       r.cur \in CommitmentStatus /\ r.next \in CommitmentStatus

\* a row without status was loaded as 'unchecked', another cell was tapped
\* and a failed save was rolled back
C12_Witness ==
  /\ students # {}
  /\ db[<<"s1", "b1">>] = NullStatus
  /\ commitments[<<"s1", "b1">>] = "unchecked"
  /\ commitments[<<"s2", "b1">>] \in {"done", "partial", "not_done"}
  /\ lastAlert = AlertSaveFailed
  /\ toggleReqs = {}

\* C10: a cell that started at 'unchecked' and received n taps, each tapped
\* only after the previous request had resolved successfully, shows the n-th
\* status of the cycle unchecked, done, partial, not_done (so 4 taps close
\* the cycle); and every tap advances the tapped cell by exactly one step of
\* that cycle, whatever its current status.
C10_CycleClosure ==
  /\ [](\A k \in AllCells :
          run[k] # -1 => Visible(commitments, k) = CycleOrder[(run[k] % 4) + 1])
  /\ [][\A r \in toggleReqs' :
          (nTaps' = nTaps + 1 /\ r \notin toggleReqs)
            => Visible(commitments', r.key)
                 = CycleSucc(Visible(commitments, r.key))]_vars

\* four serial, successful taps brought a cell back to 'unchecked'
C10_Witness ==
  \E k \in AllCells :
    /\ run[k] = 4
    /\ ~InFlightOn(toggleReqs, k)
    /\ commitments[k] = "unchecked"
    /\ db[k] = "unchecked"

\* ------------------------------------------------------------------------
\* Driver roster: properties
\* ------------------------------------------------------------------------

\* the date-range rule of the specification
ActiveOn(r, day) ==
  IF r.dateEnd = NoDate THEN day = r.dateStart
  ELSE r.dateStart <= day /\ day <= r.dateEnd

\* student s is excused on the day: a pending absence or early_pickup
\* request of s is active
Excused(s, day) ==
  \E r \in portalRequests :
    /\ r.student_id = s
    /\ r.status = "pending"
    /\ r.type \in {"absence", "early_pickup"}
    /\ ActiveOn(r, day)

\* a call of loadRouteBlocks has completed and none is in flight
RosterDone == shown # <<>> /\ routeCalls = {}

Riders(stop) == {stop.students[j].id : j \in 1..Len(stop.students)}

BusChanges == {r \in portalRequests : r.type = "bus_change"}

\* C8: the stop list is the one computed from the store without its
\* bus_change requests; on the advisory screen a bus_change request is never
\* listed as an absence and the changes list holds bus_change requests only.
C8_BusChangeKeepsRoster ==
  /\ RosterDone =>
       stopBlocks =
         IF RouteOf(shown[2], shown[1]) = NoRoute THEN <<>>
         ELSE BuildStops(BlocksQuery(RouteOf(shown[2], shown[1]), blockExtra),
                         absentIds(AbsentQuery(portalRequests \ BusChanges),
                                   today),
                         BaseTime(timeSlots, shown[1]))
  /\ \A a \in absences : a.row.type # "bus_change"
  /\ \A c \in changes : c.row.type = "bus_change"

\* the roster was assembled while a pending bus_change request of a riding
\* student was active today
C8_Witness ==
  /\ RosterDone
  /\ Len(stopBlocks) = 3
  /\ \E r \in BusChanges :
       r.status = "pending" /\ ActiveOn(r, today) /\ r.student_id = "s1"
  /\ "s1" \in Riders(stopBlocks[1])

\* minutes since midnight of a clock text, and back
ClockMinutes(t) == (t[1] * 10 + t[2]) * 60 + t[3] * 10 + t[4]
ClockText(x) ==
  <<(x \div 60) \div 10, (x \div 60) % 10, (x % 60) \div 10, (x % 60) % 10>>

\* m_1 + ... + m_k over the blocks of the route in block_order
RECURSIVE SumExtra(_, _)
SumExtra(routeId, k) ==
  IF k = 0 THEN 0
  ELSE LET b == CHOOSE x \in BlockIds :
                  BlockRoute(x) = routeId /\ BlockOrder(x) = k
       IN SumExtra(routeId, k - 1)
            + (IF blockExtra[b] = Null THEN 0 ELSE blockExtra[b])

\* C9: block k of the route gets the display time (T0 + m_1 + ... + m_k)
\* mod 1440 as HH:MM; 08:00 with [5, 10, 0] gives 08:05, 08:15, 08:15.
C9_StopTimes ==
  RosterDone =>
    /\ \A k \in 1..Len(stopBlocks) :
         stopBlocks[k].time =
           ClockText((ClockMinutes(timeSlots[shown[1]])
                        + SumExtra(RouteOf(shown[2], shown[1]), k)) % 1440)
    /\ (/\ Len(stopBlocks) = 3
        /\ timeSlots[shown[1]] = <<0, 8, 0, 0>>
        /\ blockExtra["k1"] = 5 /\ blockExtra["k2"] = 10
        /\ blockExtra["k3"] = 0)
         => /\ stopBlocks[1].time = <<0, 8, 0, 5>>
            /\ stopBlocks[2].time = <<0, 8, 1, 5>>
            /\ stopBlocks[3].time = <<0, 8, 1, 5>>

\* a departure at 23:50 whose later stops wrapped past midnight
C9_Witness ==
  /\ RosterDone
  /\ Len(stopBlocks) = 3
  /\ timeSlots[shown[1]] = <<2, 3, 5, 0>>
  /\ stopBlocks[1].time = <<2, 3, 5, 5>>
  /\ stopBlocks[2].time = <<0, 0, 0, 5>>
  /\ stopBlocks[3].time = <<0, 0, 0, 5>>

\* the students linked to a block of the route
Linked(routeId) ==
  UNION {{BlockStudents(k)[j] : j \in 1..Len(BlockStudents(k))} :
           k \in {b \in BlockIds : BlockRoute(b) = routeId}}
    \ {MissingStudent}

BlocksOf(routeId) == {k \in BlockIds : BlockRoute(k) = routeId}

C16_OffsetMonotone ==
  (RosterDone /\ RouteOf(shown[2], shown[1]) # NoRoute) =>
    LET blocks == BlocksQuery(RouteOf(shown[2], shown[1]), blockExtra)
    IN /\ Accumulated(blocks, 0) = 0
       /\ Len(stopBlocks) = Len(blocks)
       /\ \A i \in 1..Len(blocks) :
            /\ Accumulated(blocks, i) >= Accumulated(blocks, i - 1)
            /\ blocks[i].estimated_extra_time = Null
                 => Accumulated(blocks, i) = Accumulated(blocks, i - 1)
            /\ stopBlocks[i].time =
                 addMinutes(BaseTime(timeSlots, shown[1]),
                            Accumulated(blocks, i))

\* a route whose second block has no extra-time value: its stop keeps the
\* time of the first stop, the third stop is later
C16_Witness ==
  /\ RosterDone
  /\ Len(stopBlocks) = 3
  /\ blockExtra["k1"] = 5 /\ blockExtra["k2"] = Null /\ blockExtra["k3"] = 10
  /\ timeSlots[shown[1]] = <<0, 8, 0, 0>>
  /\ stopBlocks[1].time = <<0, 8, 0, 5>>
  /\ stopBlocks[2].time = <<0, 8, 0, 5>>
  /\ stopBlocks[3].time = <<0, 8, 1, 5>>

\* C17: a call for a (vehicle, slot) pair without bus route ends right after
\* the route lookup: the stop list is empty (a list shown before is
\* replaced), the loading flag is cleared, and the call never reaches the
\* route_blocks or the portal_requests query.
C17_NoRouteEmptyList ==
  /\ [](\A c \in routeCalls :
          RouteOf(c.busId, c.slotId) = NoRoute => c.pc = "route")
  /\ [][\A c \in routeCalls :
          (RouteOf(c.busId, c.slotId) = NoRoute /\ c \notin routeCalls')
            => /\ stopBlocks' = <<>>
               /\ loadingBlocks' = FALSE
               /\ \A d \in routeCalls' : d.id # c.id]_vars

\* the second call, for the slot without route, has ended after the first
\* call had filled the list: the list is empty again
C17_Witness ==
  /\ nCalls = 2
  /\ routeCalls = {}
  /\ shown = <<"slotB", "bus1">>
  /\ stopBlocks = <<>>
  /\ loadingBlocks = FALSE

\* the display-name rule of the specification
PreferredName(s) ==
  IF EnglishName(s) # "" THEN EnglishName(s)
  ELSE IF NativeName(s) # "" THEN NativeName(s)
  ELSE NoNamePlaceholder

\* C18: every rider is shown by the English name when it exists, otherwise
\* by the native name, otherwise by the placeholder.
C18_EnglishNameFirst ==
  RosterDone =>
    \A i \in 1..Len(stopBlocks) :
      \A j \in 1..Len(stopBlocks[i].students) :
        stopBlocks[i].students[j].name
          = PreferredName(stopBlocks[i].students[j].id)

\* C21: once the advisory screen has loaded, its changes list holds exactly
\* the pending bus_change requests active today under the date-range rule.
C21_ChangesActiveToday ==
  advisoryPc = "done" =>
    {c.row : c \in changes} =
      {r \in BusChanges : r.status = "pending" /\ ActiveOn(r, today)}

\* the links of a block whose student record exists, in link order
PresentLinks(k) ==
  LET present(s) == s # MissingStudent
  IN SelectSeq(BlockStudents(k), present)

\* C22: a link whose student record is missing is skipped without error:
\* the call completes, the stop of that block lists its other students (less
\* the excused ones) in link order, and every other stop is the one a store
\* without the dangling link gives.
C22_MissingStudentSkipped ==
  (RosterDone /\ RouteOf(shown[2], shown[1]) # NoRoute) =>
    /\ Len(stopBlocks) = Cardinality(BlocksOf(RouteOf(shown[2], shown[1])))
    /\ \A i \in 1..Len(stopBlocks) :
         LET links == PresentLinks(stopBlocks[i].blockId)
             stays(s) == ~Excused(s, today)
             riding == SelectSeq(links, stays)
         IN /\ Len(stopBlocks[i].students) = Len(riding)
            /\ \A j \in 1..Len(riding) :
                 stopBlocks[i].students[j].id = riding[j]

\* the block with the dangling link was assembled with both of its other
\* students riding, and the next stop with its own student
C22_Witness ==
  /\ RosterDone
  /\ Len(stopBlocks) = 3
  /\ BlockStudents("k1")[2] = MissingStudent
  /\ Len(stopBlocks[1].students) = 2
  /\ stopBlocks[1].students[1].id = "s1"
  /\ stopBlocks[1].students[2].id = "s2"
  /\ Riders(stopBlocks[2]) = {"s3"}

\* ------------------------------------------------------------------------
\* Driver screen: properties
\* ------------------------------------------------------------------------

\* C23: with a slot selected, loadRouteBlocks has been invoked for that
\* slot: its call is in flight or was the last to write the stop list.
C23_SelectInvokesLoad ==
  selectedSlotId # NoSlot =>
    \/ \E c \in routeCalls : c.slotId = selectedSlotId
    \/ shown # <<>> /\ shown[1] = selectedSlotId

C28_OperationOrder ==
  [][operation' # operation
       => <<operation, operation'>> \in
            {<<"idle", "running">>, <<"running", "ended">>,
             <<"ended", "idle">>}]_vars

\* C28 as amended: the operation state changes only idle -> running (button
\* press, slot kept), running -> ended (confirmed in the dialog; cancelling
\* leaves it running), and to idle from any state when a different slot is
\* selected or the screen is refreshed; 'ended' is left in no other way;
\* pressing the pill of the selected slot changes neither the operation
\* state nor the roster.
C28_OperationSteps ==
  [][/\ operation' # operation
          => \/ /\ operation = "idle" /\ operation' = "running"
                /\ selectedSlotId' = selectedSlotId
                /\ selectedSlotId # NoSlot
             \/ /\ operation = "running" /\ operation' = "ended"
                /\ endDialog /\ ~endDialog'
             \/ /\ operation' = "idle"
                /\ selectedSlotId' # selectedSlotId
     /\ (endDialog /\ ~endDialog' /\ operation' # "ended")
          => operation' = "running"
     /\ endDialog' => operation' = "running"
     /\ (nSelects' # nSelects /\ selectedSlotId' = selectedSlotId)
          => /\ operation' = operation
             /\ stopBlocks' = stopBlocks
             /\ routeCalls' = routeCalls
             /\ loadingBlocks' = loadingBlocks]_vars

\* a run was ended on a slot whose pill had been pressed more than once
C28_Witness ==
  /\ operation = "ended"
  /\ ~endDialog
  /\ selectedSlotId = "slotA"
  /\ nSelects = 3
  /\ nRefresh = 0

\* ------------------------------------------------------------------------
\* Index: checkAuthAndRedirect and getUserRole (index.tsx, teacher.ts)
\* ------------------------------------------------------------------------

\* the values of the UserRole type
UserRole ==
  {"master_admin", "admin", "master_teacher", "teacher", "campus", "driver",
   "parent", "unknown"}

\* what the role column of a teachers row holds, when the row exists
TeacherRowRoles == {"master_teacher", "teacher", "campus"}

\* the switch of checkAuthAndRedirect
RedirectFor(r) ==
  CASE r \in {"master_admin", "admin"} -> "/(admin)/home"
    [] r \in {"master_teacher", "teacher", "campus"} -> "/(teacher)/home"
    [] r = "parent" -> "/(parent)/home"
    [] OTHER -> "/auth/login"

\* what the frame of an Index step keeps: the backend rows and every other
\* screen
AuthFrame ==
  /\ UNCHANGED <<sessionUser, profileRow, teacherRow, driverRow, studentRows>>
  /\ UNCHANGED <<boardVars, rosterVars, messageVars, recordVars>>

\* getSession resolves: without a user, or on a thrown error, the redirect
\* goes to the login screen and finally clears loading; with a user
\* getUserRole starts with its query on profiles
SessionAnswered ==
  /\ authPc = "getSession"
  /\ \E threw \in BOOLEAN :
       IF threw \/ ~sessionUser
         THEN /\ route' = "/auth/login"
              /\ indexLoading' = FALSE
              /\ authPc' = "done"
         ELSE /\ authPc' = "profiles"
              /\ UNCHANGED <<route, indexLoading>>
  /\ UNCHANGED role
  /\ AuthFrame

\* getUserRole after the profiles query: a row makes the user 'admin', a
\* thrown error 'unknown'
ProfilesAnswered ==
  /\ authPc = "profiles"
  /\ \E threw \in BOOLEAN :
       CASE threw -> role' = "unknown" /\ authPc' = "push"
         [] ~threw /\ profileRow -> role' = "admin" /\ authPc' = "push"
         [] OTHER -> authPc' = "teachers" /\ UNCHANGED role
  /\ UNCHANGED <<route, indexLoading>>
  /\ AuthFrame

\* after the teachers query: teacher?.role, when set, is the role
TeachersAnswered ==
  /\ authPc = "teachers"
  /\ \E threw \in BOOLEAN :
       CASE threw -> role' = "unknown" /\ authPc' = "push"
         [] ~threw /\ teacherRow \notin {NoRow, NullRole} ->
              role' = teacherRow /\ authPc' = "push"
         [] OTHER -> authPc' = "drivers" /\ UNCHANGED role
  /\ UNCHANGED <<route, indexLoading>>
  /\ AuthFrame

\* after the drivers query: a row makes the user 'driver'
DriversAnswered ==
  /\ authPc = "drivers"
  /\ \E threw \in BOOLEAN :
       CASE threw -> role' = "unknown" /\ authPc' = "push"
         [] ~threw /\ driverRow -> role' = "driver" /\ authPc' = "push"
         [] OTHER -> authPc' = "students" /\ UNCHANGED role
  /\ UNCHANGED <<route, indexLoading>>
  /\ AuthFrame

\* after the students query (limit 1): a student makes the user 'parent',
\* none 'unknown'
StudentsAnswered ==
  /\ authPc = "students"
  /\ \E threw \in BOOLEAN :
       role' = IF ~threw /\ studentRows > 0 THEN "parent" ELSE "unknown"
  /\ authPc' = "push"
  /\ UNCHANGED <<route, indexLoading>>
  /\ AuthFrame

\* registerForPushNotifications resolves (it catches its own errors); the
\* switch replaces the route and finally clears loading
PushRegistered ==
  /\ authPc = "push"
  /\ route' = RedirectFor(role)
  /\ indexLoading' = FALSE
  /\ authPc' = "done"
  /\ UNCHANGED role
  /\ AuthFrame

NextAuth ==
  \/ SessionAnswered
  \/ ProfilesAnswered
  \/ TeachersAnswered
  \/ DriversAnswered
  \/ StudentsAnswered
  \/ PushRegistered

\* Index mounted: the effect has called checkAuthAndRedirect, over any
\* combination of rows the backend may hold for the user
InitAuthSpec ==
  /\ sessionUser \in BOOLEAN
  /\ profileRow \in BOOLEAN
  /\ teacherRow \in {NoRow, NullRole} \cup TeacherRowRoles
  /\ driverRow \in BOOLEAN
  /\ studentRows \in 0..1
  /\ authPc = "getSession"
  /\ role = NoRole
  /\ route = NoPath
  /\ indexLoading = TRUE
  /\ MessageIdle
  /\ RecordIdle
  /\ RosterIdle
  /\ InitBoard /\ tapLimit = 0 /\ sendLimit = 0

SpecAuth == InitAuthSpec /\ [][NextAuth]_vars

\* C27: once checkAuthAndRedirect has redirected a user whose role
\* getUserRole resolved to something other than 'unknown', the route is the
\* home of that role's own section: admin, teacher, parent or driver.
C27_RoleReachesOwnSection ==
  (authPc = "done" /\ role \in UserRole \ {"unknown"}) =>
    route = CASE role \in {"master_admin", "admin"} -> "/(admin)/home"
              [] role \in {"master_teacher", "teacher", "campus"} ->
                   "/(teacher)/home"
              [] role = "parent" -> "/(parent)/home"
              [] role = "driver" -> "/(driver)/home"

\* ------------------------------------------------------------------------
\* Morning message: preview and send (part_013)
\* ------------------------------------------------------------------------

\* the book_ids of the class's student_commitments rows of the date
CommittedBooks(c) == IF c = "c1" THEN {"b1", "b2"} ELSE {"b2"}

\* books.filter((b) => b.selected).map((b) => b.id)
SelectedBookIds(list) == {b \in DOMAIN list : list[b]}

\* what a step of the screen keeps: every other screen
MessageFrame == UNCHANGED <<boardVars, rosterVars, authVars, recordVars>>

\* a class chip is pressed: the effect on selectedClassId calls loadBooks
\* and clears the preview, the template and the send result
SelectMessageClass(c) ==
  /\ c # messageClassId
  /\ messageClassId' = c
  /\ bookLoads' = bookLoads \cup {[class_id |-> c, refresh |-> FALSE]}
  /\ previewText' = NoPreview
  /\ templateId' = NoTemplate
  /\ sendResult' = FALSE
  /\ UNCHANGED <<messageBooks, previewing, messageSending, messageRefreshing,
                 previewReqs, sendDialog, messagePosts, issued, nPreviews,
                 nBookToggles, nMessageSends>>
  /\ MessageFrame

\* loadBooks resumes: the class's books, all selected; [] when the class has
\* no commitments; on a thrown error the list is left; onRefresh's finally
\* clears refreshing
BooksAnswered(l) ==
  /\ l \in bookLoads
  /\ bookLoads' = bookLoads \ {l}
  /\ \E outcome \in {"books", "none", "error"} :
       messageBooks' = CASE outcome = "books" ->
                               [b \in CommittedBooks(l.class_id) |-> TRUE]
                         [] outcome = "none" -> <<>>
                         [] outcome = "error" -> messageBooks
  /\ messageRefreshing' = IF l.refresh THEN FALSE ELSE messageRefreshing
  /\ UNCHANGED <<messageClassId, previewText, templateId, previewing,
                 messageSending, sendResult, previewReqs, sendDialog,
                 messagePosts, issued, nPreviews, nBookToggles, nMessageSends>>
  /\ MessageFrame

\* toggleBook: the book's selected flag is flipped, and the preview, the
\* template and the send result are cleared
toggleBook(bookId) ==
  /\ bookId \in DOMAIN messageBooks
  /\ nBookToggles < MaxBookToggles
  /\ nBookToggles' = nBookToggles + 1
  /\ messageBooks' = [messageBooks EXCEPT ![bookId] = ~messageBooks[bookId]]
  /\ previewText' = NoPreview
  /\ templateId' = NoTemplate
  /\ sendResult' = FALSE
  /\ UNCHANGED <<messageClassId, previewing, messageSending,
                 messageRefreshing, bookLoads, previewReqs, sendDialog,
                 messagePosts, issued, nPreviews, nMessageSends>>
  /\ MessageFrame

\* handlePreview up to its await: with no book selected it alerts and
\* returns; otherwise previewing is set, previewText and sendResult are
\* cleared (templateId is not) and the GET leaves with the class and books
\* of this render. The button is disabled while previewing.
handlePreview ==
  /\ ~previewing
  /\ sendDialog = {}
  /\ nPreviews < MaxPreviews
  /\ SelectedBookIds(messageBooks) # {}
  /\ nPreviews' = nPreviews + 1
  /\ previewing' = TRUE
  /\ previewText' = NoPreview
  /\ sendResult' = FALSE
  /\ previewReqs' = previewReqs \cup
       {[class_id |-> messageClassId,
         book_ids |-> SelectedBookIds(messageBooks)]}
  /\ UNCHANGED <<messageClassId, messageBooks, templateId, messageSending,
                 messageRefreshing, bookLoads, sendDialog, messagePosts,
                 issued, nBookToggles, nMessageSends>>
  /\ MessageFrame

\* handlePreview resumes: the text and template generated for the request
\* are set whatever is selected now; message_text may be empty; on !res.ok
\* or a thrown error nothing is set; finally clears previewing
PreviewAnswered(q) ==
  /\ q \in previewReqs
  /\ previewReqs' = previewReqs \ {q}
  /\ \E outcome \in {"text", "blank", "error"} :
       CASE outcome = "text" ->
              /\ previewText' = <<q.class_id, q.book_ids>>
              /\ templateId' = <<q.class_id, q.book_ids>>
         [] outcome = "blank" ->
              /\ previewText' = NoPreview
              /\ templateId' = <<q.class_id, q.book_ids>>
         [] outcome = "error" -> UNCHANGED <<previewText, templateId>>
  /\ previewing' = FALSE
  /\ UNCHANGED <<messageClassId, messageBooks, messageSending,
                 messageRefreshing, sendResult, bookLoads, sendDialog,
                 messagePosts, issued, nPreviews, nBookToggles,
                 nMessageSends>>
  /\ MessageFrame

\* handleSend: without a preview text it alerts and returns (the button is
\* rendered only with one, and disabled while sending or after a result);
\* otherwise the dialog opens, its Send onPress closing over the class, the
\* books and the template of this render
handleSend ==
  /\ previewText # NoPreview
  /\ ~messageSending
  /\ ~sendResult
  /\ sendDialog = {}
  /\ nMessageSends < MaxMessageSends
  /\ sendDialog' = {[class_id |-> messageClassId,
                     book_ids |-> SelectedBookIds(messageBooks),
                     template_id |-> templateId]}
  /\ UNCHANGED <<messageClassId, messageBooks, previewText, templateId,
                 previewing, messageSending, messageRefreshing, sendResult,
                 bookLoads, previewReqs, messagePosts, issued, nPreviews,
                 nBookToggles, nMessageSends>>
  /\ MessageFrame

\* Cancel closes the dialog
CancelMessageSend ==
  /\ sendDialog # {}
  /\ sendDialog' = {}
  /\ UNCHANGED <<messageClassId, messageBooks, previewText, templateId,
                 previewing, messageSending, messageRefreshing, sendResult,
                 bookLoads, previewReqs, messagePosts, issued, nPreviews,
                 nBookToggles, nMessageSends>>
  /\ MessageFrame

\* Send is pressed: sending is set and the POST leaves with the closure's
\* class, books and template; issued keeps the body together with the
\* preview text on the screen at that moment
ConfirmMessageSend ==
  /\ \E d \in sendDialog :
       /\ messagePosts' = messagePosts \cup {d}
       /\ issued' = issued \cup
            {[class_id |-> d.class_id, book_ids |-> d.book_ids,
              template_id |-> d.template_id, preview |-> previewText]}
  /\ sendDialog' = {}
  /\ messageSending' = TRUE
  /\ nMessageSends' = nMessageSends + 1
  /\ UNCHANGED <<messageClassId, messageBooks, previewText, templateId,
                 previewing, messageRefreshing, sendResult, bookLoads,
                 previewReqs, nPreviews, nBookToggles>>
  /\ MessageFrame

\* the POST resolves: on success the send result is set; on !res.ok or a
\* thrown error it is not; finally clears sending
MessageSendAnswered(d) ==
  /\ d \in messagePosts
  /\ messagePosts' = messagePosts \ {d}
  /\ \E ok \in BOOLEAN : sendResult' = IF ok THEN TRUE ELSE sendResult
  /\ messageSending' = FALSE
  /\ UNCHANGED <<messageClassId, messageBooks, previewText, templateId,
                 previewing, messageRefreshing, bookLoads, previewReqs,
                 sendDialog, issued, nPreviews, nBookToggles, nMessageSends>>
  /\ MessageFrame

\* onRefresh: refreshing is set, the preview, the template and the result
\* are cleared, and loadBooks is called for the selected class
messageOnRefresh ==
  /\ ~messageRefreshing
  /\ sendDialog = {}
  /\ messageRefreshing' = TRUE
  /\ previewText' = NoPreview
  /\ templateId' = NoTemplate
  /\ sendResult' = FALSE
  /\ bookLoads' = bookLoads \cup
       {[class_id |-> messageClassId, refresh |-> TRUE]}
  /\ UNCHANGED <<messageClassId, messageBooks, previewing, messageSending,
                 previewReqs, sendDialog, messagePosts, issued, nPreviews,
                 nBookToggles, nMessageSends>>
  /\ MessageFrame

NextMessage ==
  \/ \E c \in Classes : SelectMessageClass(c)
  \/ \E l \in bookLoads : BooksAnswered(l)
  \/ \E b \in DOMAIN messageBooks : toggleBook(b)
  \/ handlePreview
  \/ \E q \in previewReqs : PreviewAnswered(q)
  \/ handleSend
  \/ CancelMessageSend
  \/ ConfirmMessageSend
  \/ \E d \in messagePosts : MessageSendAnswered(d)
  \/ messageOnRefresh

\* the screen after loadClasses has selected the first class: the effect on
\* selectedClassId has called loadBooks
InitMessageSpec ==
  /\ messageClassId = FirstClass
  /\ messageBooks = <<>>
  /\ previewText = NoPreview
  /\ templateId = NoTemplate
  /\ previewing = FALSE
  /\ messageSending = FALSE
  /\ messageRefreshing = FALSE
  /\ sendResult = FALSE
  /\ bookLoads = {[class_id |-> FirstClass, refresh |-> FALSE]}
  /\ previewReqs = {}
  /\ sendDialog = {}
  /\ messagePosts = {}
  /\ issued = {}
  /\ nPreviews = 0
  /\ nBookToggles = 0
  /\ nMessageSends = 0
  /\ AuthIdle
  /\ RecordIdle
  /\ RosterIdle
  /\ InitBoard /\ tapLimit = 0 /\ sendLimit = 0

SpecMessage == InitMessageSpec /\ [][NextMessage]_vars

\* C29: every send request issued carries the class and book selection for
\* which the preview on the screen and the template were generated: no
\* late preview response leaves a stale text or template that is then sent
\* with another selection.
C29_SendUsesCurrentPreview ==
  \A p \in issued :
    /\ p.preview = <<p.class_id, p.book_ids>>
    /\ p.template_id = <<p.class_id, p.book_ids>>

\* ------------------------------------------------------------------------
\* Video homework: recording, retake and submit (record.tsx)
\* ------------------------------------------------------------------------

\* the uri of a finished recording
Uris == {"u1", "u2"}

\* cameraRef.current: CameraView is rendered unless the Video preview is
CameraMounted == ~(state = "PREVIEW" /\ videoUri # NoUri)

\* what a step of the screen keeps: every other screen
RecordFrame == UNCHANGED <<boardVars, rosterVars, authVars, messageVars>>

\* the record button (rendered in READY) is pressed: startRecording awaits
\* handlePermissions
startRecording ==
  /\ state = "READY"
  /\ failAlerts = {}
  /\ nRecordings < MaxRecordings
  /\ nRecordings' = nRecordings + 1
  /\ permissionCalls' = permissionCalls + 1
  /\ UNCHANGED <<state, videoUri, facing, recordCalls, retakeCalls,
                 uploadCalls, failAlerts, submitted, nSubmits>>
  /\ RecordFrame

\* handlePermissions resolves: without both permissions, or without a
\* mounted camera, startRecording returns; otherwise the state becomes
\* RECORDING and recordAsync is awaited
PermissionsAnswered ==
  /\ permissionCalls > 0
  /\ permissionCalls' = permissionCalls - 1
  /\ \E hasPermissions \in BOOLEAN :
       IF hasPermissions /\ CameraMounted
         THEN /\ state' = "RECORDING"
              /\ recordCalls' = recordCalls + 1
         ELSE UNCHANGED <<state, recordCalls>>
  /\ UNCHANGED <<videoUri, facing, retakeCalls, uploadCalls, failAlerts,
                 submitted, nRecordings, nSubmits>>
  /\ RecordFrame

\* recordAsync settles (after stopRecording or maxDuration): with a
\* recording that has a uri, videoUri is set and the state becomes PREVIEW;
\* resolved without one, nothing is set; rejected, the state becomes READY
RecordAnswered ==
  /\ recordCalls > 0
  /\ recordCalls' = recordCalls - 1
  /\ \/ \E uri \in Uris : videoUri' = uri /\ state' = "PREVIEW"
     \/ UNCHANGED <<state, videoUri>>
     \/ state' = "READY" /\ UNCHANGED videoUri
  /\ UNCHANGED <<facing, permissionCalls, retakeCalls, uploadCalls,
                 failAlerts, submitted, nRecordings, nSubmits>>
  /\ RecordFrame

\* toggleCameraFacing, its button rendered in READY
toggleCameraFacing ==
  /\ state = "READY"
  /\ failAlerts = {}
  /\ facing' = IF facing = "back" THEN "front" ELSE "back"
  /\ UNCHANGED <<state, videoUri, permissionCalls, recordCalls, retakeCalls,
                 uploadCalls, failAlerts, submitted, nRecordings, nSubmits>>
  /\ RecordFrame

\* the retake button (rendered in PREVIEW) is pressed: with a videoUri the
\* file's deletion is awaited first; without one the reset is immediate
handleRetake ==
  /\ state = "PREVIEW"
  /\ failAlerts = {}
  /\ IF videoUri # NoUri
       THEN /\ retakeCalls' = retakeCalls \cup {videoUri}
            /\ UNCHANGED <<state, videoUri>>
       ELSE /\ videoUri' = NoUri
            /\ state' = "READY"
            /\ UNCHANGED retakeCalls
  /\ UNCHANGED <<facing, permissionCalls, recordCalls, uploadCalls,
                 failAlerts, submitted, nRecordings, nSubmits>>
  /\ RecordFrame

\* deleteAsync settles (an error is only logged): videoUri is cleared and
\* the state becomes READY
RetakeAnswered(uri) ==
  /\ uri \in retakeCalls
  /\ retakeCalls' = retakeCalls \ {uri}
  /\ videoUri' = NoUri
  /\ state' = "READY"
  /\ UNCHANGED <<facing, permissionCalls, recordCalls, uploadCalls,
                 failAlerts, submitted, nRecordings, nSubmits>>
  /\ RecordFrame

\* the submit button (rendered in PREVIEW) is pressed: without a videoUri
\* handleSubmit returns; otherwise the state becomes UPLOADING and the
\* upload of this render's videoUri is awaited
handleSubmit ==
  /\ state = "PREVIEW"
  /\ failAlerts = {}
  /\ videoUri # NoUri
  /\ nSubmits < MaxSubmits
  /\ nSubmits' = nSubmits + 1
  /\ state' = "UPLOADING"
  /\ uploadCalls' = uploadCalls \cup {videoUri}
  /\ UNCHANGED <<videoUri, facing, permissionCalls, recordCalls, retakeCalls,
                 failAlerts, submitted, nRecordings>>
  /\ RecordFrame

\* uploadVideoSubmission settles: on success the local file is deleted and
\* the completion alert is shown; on failure the alert offers retry and
\* cancel
UploadAnswered(uri) ==
  /\ uri \in uploadCalls
  /\ uploadCalls' = uploadCalls \ {uri}
  /\ \E ok \in BOOLEAN :
       IF ok THEN /\ submitted' = submitted \cup {uri}
                  /\ UNCHANGED failAlerts
             ELSE /\ failAlerts' = failAlerts \cup {uri}
                  /\ UNCHANGED submitted
  /\ UNCHANGED <<state, videoUri, facing, permissionCalls, recordCalls,
                 retakeCalls, nRecordings, nSubmits>>
  /\ RecordFrame

\* the alert's retry: handleSubmit of the render that opened it, with that
\* render's videoUri
RetrySubmit(uri) ==
  /\ uri \in failAlerts
  /\ failAlerts' = failAlerts \ {uri}
  /\ state' = "UPLOADING"
  /\ uploadCalls' = uploadCalls \cup {uri}
  /\ UNCHANGED <<videoUri, facing, permissionCalls, recordCalls, retakeCalls,
                 submitted, nRecordings, nSubmits>>
  /\ RecordFrame

\* the alert's cancel: setState('PREVIEW')
CancelSubmit(uri) ==
  /\ uri \in failAlerts
  /\ failAlerts' = failAlerts \ {uri}
  /\ state' = "PREVIEW"
  /\ UNCHANGED <<videoUri, facing, permissionCalls, recordCalls, retakeCalls,
                 uploadCalls, submitted, nRecordings, nSubmits>>
  /\ RecordFrame

NextRecord ==
  \/ startRecording
  \/ PermissionsAnswered
  \/ RecordAnswered
  \/ toggleCameraFacing
  \/ handleRetake
  \/ \E uri \in retakeCalls : RetakeAnswered(uri)
  \/ handleSubmit
  \/ \E uri \in uploadCalls : UploadAnswered(uri)
  \/ \E uri \in failAlerts : RetrySubmit(uri)
  \/ \E uri \in failAlerts : CancelSubmit(uri)

\* the screen as mounted, its assignment loaded
InitRecordSpec ==
  /\ RecordIdle
  /\ AuthIdle
  /\ MessageIdle
  /\ RosterIdle
  /\ InitBoard /\ tapLimit = 0 /\ sendLimit = 0

SpecRecord == InitRecordSpec /\ [][NextRecord]_vars

\* C30: whenever a started recording finishes (recordAsync resolves with
\* or without a recording, or rejects) the state leaves RECORDING, becoming
\* PREVIEW with videoUri set, or READY; and the state is PREVIEW or
\* UPLOADING only while videoUri is non-null.
C30_RecordingLeavesRecording ==
  /\ [](state \in {"PREVIEW", "UPLOADING"} => videoUri # NoUri)
  /\ [][recordCalls' < recordCalls =>
          \/ state' = "PREVIEW" /\ videoUri' # NoUri
          \/ state' = "READY"]_vars

====
